---- MODULE Spec2Model ----
(***************************************************************************)
(* Model of custom_emoji_extractor.py: MattermostEmojiExtractor.            *)
(* One run of extract_emojis() (mkdir, identity check, paged listing,       *)
(* metadata write, download loop, summary) or of get_all_custom_emojis()    *)
(* alone, against a server and a filesystem that may fail.                  *)
(* Strings the code inspects character by character (content types, file   *)
(* names) are sequences of one-character strings.                           *)
(***************************************************************************)
EXTENDS Integers, Sequences, FiniteSets

VARIABLES
    call,           \* the method called on the constructed extractor
    db,             \* the server's emoji collection, sorted by name
    serverMode,     \* how the server answers the page parameter
    pc,             \* position in the called method
    outcome,        \* how the call ended ("running" until it does)
    fs,             \* the destination directory: [dir, meta, files]
    fs0,            \* the filesystem before the call (history)
    requests,       \* every HTTP request issued, in order (history)
    idResp,         \* the identity response received, <<>> before it
    connected,      \* the value test_connection returned
    page,           \* get_all_custom_emojis: page
    all_emojis,     \* get_all_custom_emojis: all_emojis; extract_emojis: emojis
    listResps,      \* the raw response of every page request (history)
    listDone,       \* get_all_custom_emojis has returned
    i,              \* extract_emojis: the loop index of enumerate(emojis, 1)
    success_count,  \* extract_emojis: success_count
    returns,        \* the value of every download_emoji_image call (history)
    lastDl,         \* the last download_emoji_image call, <<>> before it
    metaWrites,     \* times open(metadata_file, 'w') succeeded (history)
    summary         \* <<success_count, len(emojis)>> once printed, else <<>>

vars == <<call, db, serverMode, pc, outcome, fs, fs0, requests, idResp,
          connected, page, all_emojis, listResps, listDone, i, success_count,
          returns, lastDl, metaWrites, summary>>

----------------------------------------------------------------------------
(* Bounds of the model *)

\* longest collection a modelled extract_emojis run lists
MaxEmojis == 3

\* page requests after which a listing that never ends is cut off
MaxPage == 4

(* Program constant *)

\* per_page = 200 in get_all_custom_emojis
PerPage == 200

----------------------------------------------------------------------------
(* Strings *)

CT_absent == <<>>
CT_png == <<"i", "m", "a", "g", "e", "/", "p", "n", "g">>
CT_gif == <<"i", "m", "a", "g", "e", "/", "g", "i", "f">>
CT_jpeg == <<"i", "m", "a", "g", "e", "/", "j", "p", "e", "g">>
CT_jpg == <<"i", "m", "a", "g", "e", "/", "j", "p", "g">>
CT_octet == <<"a", "p", "p", "l", "i", "c", "a", "t", "i", "o", "n", "/", "o", "c", "t", "e", "t", "-", "s", "t", "r", "e", "a", "m">>
CT_gif_upper == <<"i", "m", "a", "g", "e", "/", "G", "I", "F">>
CT_gif_named_png == <<"i", "m", "a", "g", "e", "/", "g", "i", "f", ";", " ", "n", "a", "m", "e", "=", "a", ".", "p", "n", "g">>

ContentTypes ==
    {CT_absent, CT_png, CT_gif, CT_jpeg, CT_jpg, CT_octet, CT_gif_upper,
     CT_gif_named_png}

Name_foo == <<"f", "o", "o">>
Name_bar == <<"b", "a", "r">>
Name_partyparrot == <<"p", "a", "r", "t", "y", "p", "a", "r", "r", "o", "t">>

\* Python's `sub in s` on strings
Contains(sub, s) ==
    \E k \in 0..(Len(s) - Len(sub)) : SubSeq(s, k + 1, k + Len(sub)) = sub

----------------------------------------------------------------------------
(* The server *)

\* Emoji records a small server may hold; the last one lacks its name.
EmojiKinds ==
    { [id |-> 2, name |-> Name_foo],
      [id |-> 3, name |-> Name_partyparrot],
      [id |-> 4] }

\* Collections of at most MaxEmojis records with distinct ids.
SmallDbs ==
    UNION { { s \in [1..n -> EmojiKinds] :
                \A a, b \in 1..n : a # b => s[a].id # s[b].id } : n \in 0..MaxEmojis }

\* Collection sizes around the page size.
ListSizes == {0, 1, 73, 199, 200, 201, 400, 473}

BigDb(n) == [k \in 1..n |-> [id |-> 100 + k, name |-> Name_partyparrot]]

Min(a, b) == IF a < b THEN a ELSE b

\* The records the server holds for a page: a faithful server slices its
\* collection, one that ignores the page parameter always sends the start.
ServerPage(p, per_page) ==
    LET first == IF serverMode = "paged" THEN p * per_page + 1 ELSE 1
        last  == Min(Len(db), first + per_page - 1)
    IN  SubSeq(db, first, last)

\* status 0 stands for a transport failure: session.get raises.
IdentityResponses ==
    { [status |-> 0,   body |-> "none"],
      [status |-> 401, body |-> "object"],
      [status |-> 500, body |-> "not_json"],
      [status |-> 200, body |-> "object_username"],
      [status |-> 200, body |-> "object"],
      [status |-> 200, body |-> "array"],
      [status |-> 200, body |-> "not_json"] }

\* A parsed JSON body as Python sees it: its shape, and the items that
\* iterating over it yields. An array yields its records; an object yields
\* its keys, which are strings (a JSON string yields strings too);
\* "scalar" is a truthy value that cannot be iterated (5, true); "null" is
\* null, and 0 and false are falsy like it.
JsonArray(records) == [shape |-> "array", items |-> records]
JsonObject == [shape |-> "object",
               items |-> << [str |-> "id"], [str |-> "name"] >>]
JsonScalar == [shape |-> "scalar", items |-> <<>>]
JsonNull == [shape |-> "null", items |-> <<>>]

\* A page request fails in transport, is refused, or is answered 200 with
\* a body that does not parse, with the JSON array of the page, or with
\* JSON of another shape.
ListResponses(p, per_page) ==
    { [status |-> 0,   parses |-> FALSE, json |-> JsonNull],
      [status |-> 500, parses |-> TRUE,  json |-> JsonObject],
      [status |-> 200, parses |-> FALSE, json |-> JsonNull],
      [status |-> 200, parses |-> TRUE,  json |-> JsonArray(ServerPage(p, per_page))],
      [status |-> 200, parses |-> TRUE,  json |-> JsonObject],
      [status |-> 200, parses |-> TRUE,  json |-> JsonScalar],
      [status |-> 200, parses |-> TRUE,  json |-> JsonNull] }

\* The image the server stores for an emoji id, as its sequence of bytes,
\* each marked with the chunk of iter_content(chunk_size=8192) that carries
\* it: an image fits one chunk, that of emoji 3 takes two.
ImageOf(id) ==
    IF id = 3
    THEN << [image |-> id, chunk |-> 1, byte |-> 1],
            [image |-> id, chunk |-> 1, byte |-> 2],
            [image |-> id, chunk |-> 2, byte |-> 1] >>
    ELSE << [image |-> id, chunk |-> 1, byte |-> 1],
            [image |-> id, chunk |-> 1, byte |-> 2] >>

ImageResponses(id) ==
    { [status |-> 0,   ct |-> CT_absent, body |-> <<>>],
      [status |-> 404, ct |-> CT_absent, body |-> <<>>] }
    \cup { [status |-> 200, ct |-> c, body |-> ImageOf(id)] : c \in ContentTypes }

MeRequest == [ep |-> "users/me"]
ListRequest(p, per_page) ==
    [ep |-> "emoji", page |-> p, per_page |-> per_page, sort |-> "name"]
ImageRequest(id) == [ep |-> "image", id |-> id]

----------------------------------------------------------------------------
(* The filesystem *)

OldCollection == << [id |-> 9, name |-> Name_bar] >>

\* The content of emoji_metadata.json: the collection json.dump was given,
\* and whether all of its text reached the file.
MetaFile(emojis, complete) == [data |-> emojis, complete |-> complete]

InitialFilesystems ==
    { [dir |-> FALSE, meta |-> <<>>, files |-> {}],
      [dir |-> TRUE,  meta |-> <<>>, files |-> {}],
      [dir |-> TRUE,  meta |-> <<MetaFile(OldCollection, TRUE)>>,
       files |-> { [name |-> Name_foo \o <<".", "p", "n", "g">>,
                    body |-> ImageOf(9)] }] }

\* How writing a downloaded image goes: open(filepath, 'wb') raises; or the
\* file is opened (and truncated) and iter_content, f.write or the flush at
\* close raises after `written` bytes reached the file: none, all, or any
\* number between, at a chunk boundary or inside a chunk; or every byte is
\* written and the stream ends.
IoOutcomes(body) ==
    { [kind |-> "ok", written |-> Len(body)],
      [kind |-> "open_fails", written |-> 0] }
    \cup { [kind |-> "stream_fails", written |-> k] : k \in 0..Len(body) }

\* How writing the metadata file goes: open raises; or the file is opened
\* (and truncated) and json.dump or the close raises with part of the text
\* written; or all of it is written.
MetaOutcomes == {"ok", "open_fails", "write_fails"}

\* open(filepath, 'wb') and the writes: the file holds exactly body afterwards
WriteFile(files, filename, body) ==
    { f \in files : f.name # filename } \cup { [name |-> filename, body |-> body] }

----------------------------------------------------------------------------
(* Faulty variants of the methods below, used to show that each property    *)
(* checked at the end depends on the code it is about.                      *)

\* test_connection accepting any response that arrived, whatever its status
test_connection_any_status(resp) == resp.status # 0

\* test_connection insisting on a username in the body
test_connection_needs_username(resp) ==
    resp.status = 200 /\ resp.body = "object_username"

\* the loop of get_all_custom_emojis without its short-page break
iter_break_only_on_empty(all, p, emojis, per_page) ==
    IF emojis.shape = "null" \/ (emojis.shape # "scalar" /\ emojis.items = <<>>)
    THEN [all |-> all, page |-> p, brk |-> TRUE, raised |-> FALSE]
    ELSE IF emojis.shape = "scalar"
    THEN [all |-> all, page |-> p, brk |-> FALSE, raised |-> TRUE]
    ELSE [all |-> all \o emojis.items, page |-> p + 1, brk |-> FALSE,
          raised |-> FALSE]

\* the extension chosen with gif tested before png
file_ext_gif_first(content_type) ==
    IF Contains(<<"g", "i", "f">>, content_type) THEN <<".", "g", "i", "f">>
    ELSE IF Contains(<<"p", "n", "g">>, content_type) THEN <<".", "p", "n", "g">>
    ELSE IF Contains(<<"j", "p", "e", "g">>, content_type)
            \/ Contains(<<"j", "p", "g">>, content_type)
         THEN <<".", "j", "p", "g">>
    ELSE <<".", "p", "n", "g">>

\* mkdir leaving the directory as it was
mkdir_skipped(f) == f

\* extract_emojis without its empty-collection check
has_emojis_unchecked(emojis) == TRUE

\* success_count incremented whatever the download returned
tally_every_call(count, ret) == count + 1

----------------------------------------------------------------------------
(* The methods of MattermostEmojiExtractor *)

\* test_connection: True only when the status is 200 and the body parses as
\* a JSON object; response.json() or user_data.get raising is caught and
\* gives False, like a transport failure.
test_connection(resp) ==
    IF resp.status = 0 THEN FALSE
    ELSE IF resp.status = 200
         THEN resp.body \in {"object_username", "object"}
         ELSE FALSE

\* get_custom_emojis: on 200 whatever response.json() gives, of any shape;
\* [] on any other status, on a transport failure and on a body that does
\* not parse.
get_custom_emojis(resp) ==
    IF resp.status = 0 THEN JsonArray(<<>>)
    ELSE IF resp.status = 200
         THEN (IF resp.parses THEN resp.json ELSE JsonArray(<<>>))
         ELSE JsonArray(<<>>)

\* Python's `not emojis`: None and the empty list or dict are falsy.
falsy(emojis) ==
    \/ emojis.shape = "null"
    \/ emojis.shape \in {"array", "object"} /\ emojis.items = <<>>

\* One iteration of the while loop of get_all_custom_emojis. extend raises
\* TypeError on a value that cannot be iterated, and nothing catches it;
\* on an object it appends the keys.
get_all_custom_emojis_iter(all, p, emojis, per_page) ==
    IF falsy(emojis)
    THEN [all |-> all, page |-> p, brk |-> TRUE, raised |-> FALSE]
    ELSE IF emojis.shape \notin {"array", "object"}
    THEN [all |-> all, page |-> p, brk |-> FALSE, raised |-> TRUE]
    ELSE IF Len(emojis.items) < per_page
         THEN [all |-> all \o emojis.items, page |-> p, brk |-> TRUE,
               raised |-> FALSE]
         ELSE [all |-> all \o emojis.items, page |-> p + 1, brk |-> FALSE,
               raised |-> FALSE]

\* The extension download_emoji_image derives from the content-type header.
file_ext(content_type) ==
    IF Contains(<<"p", "n", "g">>, content_type) THEN <<".", "p", "n", "g">>
    ELSE IF Contains(<<"g", "i", "f">>, content_type) THEN <<".", "g", "i", "f">>
    ELSE IF Contains(<<"j", "p", "e", "g">>, content_type)
            \/ Contains(<<"j", "p", "g">>, content_type)
         THEN <<".", "j", "p", "g">>
    ELSE <<".", "p", "n", "g">>

\* download_emoji_image once the response is in: the value returned and the
\* files of download_dir afterwards. io is how the write goes; a failure of
\* open, of the body stream or of a write is caught like a transport
\* failure, and leaves in the file the bytes written before it.
download_emoji_image(emoji_name, files, resp, io) ==
    IF resp.status = 0 THEN [ret |-> FALSE, files |-> files]
    ELSE IF resp.status = 200
         THEN (IF io.kind = "open_fails"
               THEN [ret |-> FALSE, files |-> files]
               ELSE [ret |-> io.kind = "ok",
                     files |-> WriteFile(files, emoji_name \o file_ext(resp.ct),
                                         SubSeq(resp.body, 1, io.written))])
         ELSE [ret |-> FALSE, files |-> files]

\* Path(download_dir).mkdir(exist_ok=True), when it succeeds
mkdir(f) == [f EXCEPT !.dir = TRUE]

\* `if not emojis: return` of extract_emojis, negated
has_emojis(emojis) == emojis # <<>>

\* open(metadata_file, 'w') and json.dump(emojis, f), once open succeeded:
\* the file holds the text of emojis, all of it or a part
save_metadata(f, emojis, complete) ==
    [f EXCEPT !.meta = <<MetaFile(emojis, complete)>>]

\* `if self.download_emoji_image(...): success_count += 1`
tally(count, ret) == IF ret THEN count + 1 ELSE count

\* emoji['id'] and emoji['name'] both exist: emoji is a record that has
\* both keys, and not a string
has_keys(emoji) == "id" \in DOMAIN emoji /\ "name" \in DOMAIN emoji

----------------------------------------------------------------------------
(* Initial states *)

Init ==
    /\ \/ /\ call = "extract_emojis"
          /\ db \in SmallDbs
          /\ serverMode = "paged"
          /\ pc = "mkdir"
          /\ fs0 \in InitialFilesystems
       \/ /\ call = "get_all_custom_emojis"
          /\ db \in { BigDb(n) : n \in ListSizes }
          /\ serverMode \in {"paged", "ignores_page"}
          /\ pc = "list"
          /\ fs0 \in { f \in InitialFilesystems : f.dir /\ f.meta = <<>> }
    /\ fs = fs0
    /\ outcome = "running"
    /\ requests = <<>>
    /\ idResp = <<>>
    /\ connected = FALSE
    /\ page = 0
    /\ all_emojis = <<>>
    /\ listResps = <<>>
    /\ listDone = FALSE
    /\ i = 1
    /\ success_count = 0
    /\ returns = <<>>
    /\ lastDl = <<>>
    /\ metaWrites = 0
    /\ summary = <<>>

----------------------------------------------------------------------------
(* Steps *)

\* extract_emojis, line 161: create the directory; a failure propagates.
Mkdir ==
    /\ pc = "mkdir"
    /\ \E ok \in BOOLEAN :
        /\ fs.dir => ok
        /\ IF ok
           THEN /\ fs' = mkdir(fs)
                /\ pc' = "test_connection"
                /\ outcome' = outcome
           ELSE /\ fs' = fs
                /\ pc' = "done"
                /\ outcome' = "raised"
    /\ UNCHANGED <<call, db, serverMode, fs0, requests, idResp, connected, page,
                   all_emojis, listResps, listDone, i, success_count, returns,
                   lastDl, metaWrites, summary>>

\* extract_emojis, lines 164-165, with the call of test_connection.
TestConnection ==
    /\ pc = "test_connection"
    /\ \E resp \in IdentityResponses :
        /\ requests' = Append(requests, MeRequest)
        /\ idResp' = <<resp>>
        /\ connected' = test_connection(resp)
        /\ IF test_connection(resp)
           THEN pc' = "list" /\ outcome' = outcome
           ELSE pc' = "done" /\ outcome' = "connect_failed"
    /\ UNCHANGED <<call, db, serverMode, fs, fs0, page, all_emojis, listResps,
                   listDone, i, success_count, returns, lastDl, metaWrites, summary>>

\* One iteration of get_all_custom_emojis: request page `page`, then
\* accumulate, and break or advance, or raise out of the listing (and out
\* of extract_emojis). The loop has no bound of its own; MaxPage cuts the
\* model off.
ListPage ==
    /\ pc = "list"
    /\ page < MaxPage
    /\ \E resp \in ListResponses(page, PerPage) :
        LET r == get_all_custom_emojis_iter(all_emojis, page,
                                            get_custom_emojis(resp), PerPage)
        IN  /\ requests' = Append(requests, ListRequest(page, PerPage))
            /\ listResps' = Append(listResps, resp)
            /\ all_emojis' = r.all
            /\ page' = r.page
            /\ listDone' = r.brk
            /\ pc' = IF r.raised THEN "done"
                     ELSE IF ~r.brk THEN "list"
                     ELSE IF call = "get_all_custom_emojis" THEN "done"
                     ELSE "listed"
            /\ outcome' = IF r.raised THEN "raised"
                          ELSE IF r.brk /\ call = "get_all_custom_emojis"
                          THEN "returned" ELSE outcome
    /\ UNCHANGED <<call, db, serverMode, fs, fs0, idResp, connected, i,
                   success_count, returns, lastDl, metaWrites, summary>>

\* extract_emojis, lines 170-172: nothing listed.
NoData ==
    /\ pc = "listed"
    /\ ~has_emojis(all_emojis)
    /\ pc' = "done"
    /\ outcome' = "no_data"
    /\ UNCHANGED <<call, db, serverMode, fs, fs0, requests, idResp, connected,
                   page, all_emojis, listResps, listDone, i, success_count,
                   returns, lastDl, metaWrites, summary>>

\* extract_emojis, lines 175-182: write the metadata file; a failure of
\* open, or of the write after it, propagates.
PersistMetadata ==
    /\ pc = "listed"
    /\ has_emojis(all_emojis)
    /\ \E io \in MetaOutcomes :
        /\ fs' = IF io = "open_fails" THEN fs
                 ELSE save_metadata(fs, all_emojis, io = "ok")
        /\ pc' = IF io = "ok" THEN "download" ELSE "done"
        /\ outcome' = IF io = "ok" THEN outcome ELSE "raised"
        /\ metaWrites' = IF io = "open_fails" THEN metaWrites
                         ELSE metaWrites + 1
    /\ success_count' = 0
    /\ UNCHANGED <<call, db, serverMode, fs0, requests, idResp, connected, page,
                   all_emojis, listResps, listDone, i, returns, lastDl, summary>>

\* extract_emojis, lines 184-197: one iteration of the download loop, with
\* the call of download_emoji_image.
Download ==
    /\ pc = "download"
    /\ i <= Len(all_emojis)
    /\ has_keys(all_emojis[i])
    /\ LET emoji_id == all_emojis[i].id
           emoji_name == all_emojis[i].name
       IN \E resp \in ImageResponses(emoji_id) :
           \E io \in IoOutcomes(resp.body) :
            LET r == download_emoji_image(emoji_name, fs.files, resp, io)
            IN  /\ resp.status # 200 => io.kind = "ok"
                /\ requests' = Append(requests, ImageRequest(emoji_id))
                /\ fs' = [fs EXCEPT !.files = r.files]
                /\ success_count' = tally(success_count, r.ret)
                /\ returns' = Append(returns, r.ret)
                /\ lastDl' = << [emoji |-> all_emojis[i], resp |-> resp,
                                 io |-> io, ret |-> r.ret,
                                 before |-> fs.files] >>
    /\ i' = i + 1
    /\ UNCHANGED <<call, db, serverMode, pc, outcome, fs0, idResp, connected, page,
                   all_emojis, listResps, listDone, metaWrites, summary>>

\* extract_emojis, lines 185-186: a record without id or name raises
\* KeyError, a string raises TypeError, and nothing catches either.
DownloadKeyError ==
    /\ pc = "download"
    /\ i <= Len(all_emojis)
    /\ ~has_keys(all_emojis[i])
    /\ pc' = "done"
    /\ outcome' = "raised"
    /\ UNCHANGED <<call, db, serverMode, fs, fs0, requests, idResp, connected,
                   page, all_emojis, listResps, listDone, i, success_count,
                   returns, lastDl, metaWrites, summary>>

\* extract_emojis, lines 199-200: the summary.
Summary ==
    /\ pc = "download"
    /\ i > Len(all_emojis)
    /\ summary' = <<success_count, Len(all_emojis)>>
    /\ pc' = "done"
    /\ outcome' = "summary"
    /\ UNCHANGED <<call, db, serverMode, fs, fs0, requests, idResp, connected,
                   page, all_emojis, listResps, listDone, i, success_count,
                   returns, lastDl, metaWrites>>

Next ==
    \/ Mkdir
    \/ TestConnection
    \/ ListPage
    \/ NoData
    \/ PersistMetadata
    \/ Download
    \/ DownloadKeyError
    \/ Summary

Spec == Init /\ [][Next]_vars

\* The program is one sequential thread: a step that can be taken is taken.
FairSpec == Spec /\ WF_vars(Next)

----------------------------------------------------------------------------
(* Derived views of the history *)

ListRequests == SelectSeq(requests, LAMBDA r : r.ep = "emoji")
ImageRequests == SelectSeq(requests, LAMBDA r : r.ep = "image")

\* What the loop iterates over for a response: the items of the value
\* get_custom_emojis gives for it.
PageOf(resp) == get_custom_emojis(resp).items

PageSizes == [k \in 1..Len(listResps) |-> Len(PageOf(listResps[k]))]

\* A page of records as a caller of the listing understands it: the array
\* of a 200 response, and the empty page for a failed or refused request
\* and for a body that is not an array of records.
RecordsOf(resp) ==
    IF resp.status = 200 /\ resp.parses /\ resp.json.shape = "array"
    THEN resp.json.items ELSE <<>>

RecordCounts == [k \in 1..Len(listResps) |-> Len(RecordsOf(listResps[k]))]

RECURSIVE Concatenation(_)
Concatenation(n) ==
    IF n = 0 THEN <<>> ELSE Concatenation(n - 1) \o RecordsOf(listResps[n])

\* The listing has received a response and is no longer looping.
ListingOver == listResps # <<>> /\ pc # "list"

FullPages == Cardinality({ k \in 1..Len(listResps) : PageSizes[k] >= 200 })

CeilDiv(a, b) == (a + b - 1) \div b

IdentityAnswered == idResp # <<>>

----------------------------------------------------------------------------
(* C1 *)

\* C1: when the identity check gets a non-200 response or fails in
\* transport, test_connection returns false, the run is over, and the
\* identity check is the only request the run has issued or will issue.
C1_FailedIdentityIsOnlyRequest ==
    (IdentityAnswered /\ idResp[1].status # 200)
        => /\ connected = FALSE
           /\ outcome = "connect_failed"
           /\ pc = "done"
           /\ requests = <<MeRequest>>

C1_Witness ==
    /\ IdentityAnswered
    /\ idResp[1].status = 401
    /\ outcome = "connect_failed"

----------------------------------------------------------------------------
(* C2 *)

\* C2 as claimed: a run whose identity check fails leaves the filesystem
\* (directory, metadata file, image files) exactly as it found it.
C2_FilesystemUntouched ==
    outcome = "connect_failed" => fs = fs0

\* C2 amended: a run whose identity check fails leaves the metadata file and
\* every image file as it found them; the destination directory exists
\* afterwards, created by the run if it was absent.
C2_FilesUntouchedDirCreated ==
    outcome = "connect_failed"
        => /\ fs.meta = fs0.meta
           /\ fs.files = fs0.files
           /\ fs.dir

C2_Witness ==
    /\ outcome = "connect_failed"
    /\ ~fs0.dir
    /\ fs.dir

----------------------------------------------------------------------------
(* C3 *)

\* C3: the listing requests pages 0, 1, 2, ... with per_page = 200, every
\* page before the last one received holds at least 200 records, the
\* listing stops exactly at the first page that is shorter (a failed
\* request counting as an empty page), it stops by returning, and what it
\* returns is the in-order concatenation of the pages received; sizes
\* [200, 200, 73] give 3 requests and 473 records, sizes [200, error] give
\* 2 requests and 200.
C3_PaginationStopsAtShortPage ==
    LET n == Len(listResps)
    IN  /\ Len(ListRequests) = n
        /\ \A k \in 1..n : ListRequests[k] =
               [ep |-> "emoji", page |-> k - 1, per_page |-> 200, sort |-> "name"]
        /\ \A k \in 1..(n - 1) : RecordCounts[k] >= 200
        /\ ~ListingOver => /\ all_emojis = Concatenation(n)
                           /\ n >= 1 => RecordCounts[n] >= 200
        /\ ListingOver => /\ listDone
                          /\ RecordCounts[n] < 200
                          /\ all_emojis = Concatenation(n)
        /\ (ListingOver /\ RecordCounts = <<200, 200, 73>>)
               => Len(all_emojis) = 473 /\ Len(ListRequests) = 3
        /\ (ListingOver /\ RecordCounts = <<200, 0>>)
               => Len(all_emojis) = 200 /\ Len(ListRequests) = 2

----------------------------------------------------------------------------
(* C4 *)

\* C4 as claimed: whatever the server does, the listing issues at most
\* ceil(total emoji count / page size) + 1 page requests.
C4_RequestsBoundedByCollection ==
    Len(ListRequests) <= CeilDiv(Len(db), PerPage) + 1

\* The requests of a listing: one per full page received while it loops,
\* one more once it is over; against a server that pages its collection
\* faithfully that is at most floor(total / page size) + 1.
C4_RequestCount ==
    /\ (pc = "list" /\ ~listDone) => Len(ListRequests) = FullPages
    /\ ListingOver => Len(ListRequests) = FullPages + 1
    /\ serverMode = "paged" => Len(ListRequests) <= (Len(db) \div PerPage) + 1

\* C4 amended: the listing ends at the first response that does not hold
\* per_page items or more: it returns at a short or empty page and at a
\* failed request, and raises at a body that cannot be iterated; that is
\* after one request per full page plus that one. Against a server that
\* pages a collection of N records faithfully it always ends, within
\* floor(N / per_page) + 1 requests. It does not end while every response
\* holds per_page records or more.
C4_TerminatesOnFaithfulServer ==
    /\ []C4_RequestCount
    /\ (pc = "list" /\ serverMode = "paged") ~> ListingOver

C4_Witness ==
    /\ listDone
    /\ serverMode = "paged"
    /\ Len(db) = 400
    /\ Len(ListRequests) = 3
    /\ PageSizes = <<200, 200, 0>>

----------------------------------------------------------------------------
(* C5 *)

\* C5 as claimed: every 200 response of the identity endpoint, whatever its
\* body, makes test_connection return true.
C5_Any200Connects ==
    (IdentityAnswered /\ idResp[1].status = 200) => connected

\* C5 amended: every 200 response of the identity endpoint whose body
\* parses as a JSON object (with or without a username) makes
\* test_connection return true, and the run goes on to the listing, whose
\* first request is page 0; a 200 response whose body is not a JSON object
\* makes it return false.
C5_Json200Connects ==
    /\ (IdentityAnswered /\ idResp[1].status = 200
          /\ idResp[1].body \in {"object_username", "object"})
        => /\ connected
           /\ outcome # "connect_failed"
           /\ Len(requests) = 1 => (pc = "list" /\ page = 0 /\ ENABLED ListPage)
           /\ Len(requests) >= 2 =>
                  requests[2] = [ep |-> "emoji", page |-> 0, per_page |-> 200,
                                 sort |-> "name"]
    /\ (IdentityAnswered /\ idResp[1].status = 200
          /\ idResp[1].body \in {"array", "not_json"})
        => ~connected /\ outcome = "connect_failed"

C5_Witness ==
    /\ IdentityAnswered
    /\ idResp[1] = [status |-> 200, body |-> "object"]
    /\ connected
    /\ Len(requests) >= 2
    /\ requests[2].ep = "emoji"

----------------------------------------------------------------------------
(* C6 *)

\* C6 as claimed: after an empty listing the metadata file is never
\* written and no image is requested; after a non-empty listing the
\* metadata file is written exactly once, with the listed collection
\* (stated for collections of records that have their id and name), and an
\* image is requested only after that write.
C6_MetadataWrittenOnce ==
    /\ metaWrites <= 1
    /\ (listDone /\ all_emojis = <<>>)
           => /\ metaWrites = 0
              /\ fs.meta = fs0.meta
              /\ ImageRequests = <<>>
    /\ (call = "extract_emojis" /\ listDone /\ all_emojis # <<>> /\ pc # "listed"
          /\ \A k \in 1..Len(all_emojis) : has_keys(all_emojis[k]))
           => (metaWrites = 1 /\ fs.meta = <<MetaFile(all_emojis, TRUE)>>)
    /\ ImageRequests # <<>>
           => (metaWrites = 1 /\ fs.meta = <<MetaFile(all_emojis, TRUE)>>)

\* C6 amended: after an empty listing the metadata file is never written
\* and no image is requested. After a non-empty listing the metadata file
\* is opened for writing at most once, and either it was written once and
\* holds the whole listed collection, or the run has raised without any
\* image request, the file being as it was found (open failed) or holding
\* a part of the new text (the write failed). An image is requested only
\* after the complete write.
C6_MetadataOnceOrRaises ==
    /\ metaWrites <= 1
    /\ (listDone /\ all_emojis = <<>>)
           => /\ metaWrites = 0
              /\ fs.meta = fs0.meta
              /\ ImageRequests = <<>>
    /\ (call = "extract_emojis" /\ listDone /\ all_emojis # <<>> /\ pc # "listed")
           => \/ /\ metaWrites = 1
                 /\ fs.meta = <<MetaFile(all_emojis, TRUE)>>
              \/ /\ outcome = "raised"
                 /\ ImageRequests = <<>>
                 /\ \/ metaWrites = 0 /\ fs.meta = fs0.meta
                    \/ metaWrites = 1
                         /\ fs.meta = <<MetaFile(all_emojis, FALSE)>>
    /\ ImageRequests # <<>>
           => (metaWrites = 1 /\ fs.meta = <<MetaFile(all_emojis, TRUE)>>)
    /\ (pc = "download" \/ outcome = "summary")
           => (all_emojis # <<>> /\ fs.meta = <<MetaFile(all_emojis, TRUE)>>)
    /\ outcome = "no_data" => all_emojis = <<>>

C6_Witness ==
    /\ pc = "download"
    /\ metaWrites = 1
    /\ fs.meta = <<MetaFile(all_emojis, TRUE)>>
    /\ fs0.meta # <<>>
    /\ Len(ImageRequests) = 1

----------------------------------------------------------------------------
(* C7 *)

\* C7: the image requests issued so far are those of the first records of
\* the listing, in its order, one per record; and a run of extract_emojis
\* that listed a non-empty collection of records (each with its id and
\* name) ends with one image request per record, whatever the downloads
\* returned.
C7_OneDownloadPerRecord ==
    /\ Len(ImageRequests) <= Len(all_emojis)
    /\ \A k \in 1..Len(ImageRequests) :
           /\ has_keys(all_emojis[k])
           /\ ImageRequests[k] = ImageRequest(all_emojis[k].id)
    /\ (call = "extract_emojis" /\ pc = "done" /\ listDone /\ all_emojis # <<>>
          /\ \A k \in 1..Len(all_emojis) : has_keys(all_emojis[k]))
           => Len(ImageRequests) = Len(all_emojis)

----------------------------------------------------------------------------
(* C8 *)

\* C8: success_count is the number of download_emoji_image calls so far
\* that returned true, 0 <= success_count <= records processed <= total,
\* and the summary reports that count over the length of the listed
\* collection.
C8_TallyCountsSuccesses ==
    LET succeeded == Cardinality({ k \in 1..Len(returns) : returns[k] })
    IN  /\ success_count = succeeded
        /\ 0 <= success_count
        /\ success_count <= Len(returns)
        /\ Len(returns) <= Len(all_emojis)
        /\ Len(returns) = Len(ImageRequests)
        /\ summary # <<>> => /\ summary = <<succeeded, Len(all_emojis)>>
                             /\ Len(returns) = Len(all_emojis)
        /\ (summary # <<>> /\ returns = <<TRUE, TRUE>>) => summary = <<2, 2>>
        /\ (summary # <<>> /\ returns = <<TRUE, FALSE>>) => summary = <<1, 2>>

C8_Witness ==
    /\ summary = <<1, 2>>
    /\ returns = <<FALSE, TRUE>>

----------------------------------------------------------------------------
(* C9 *)

\* C9: no exception propagates out of a step: every failure is turned into
\* a sentinel return, so no call ends by raising.
C9_NoExceptionPropagates ==
    outcome # "raised"

----------------------------------------------------------------------------
(* C10 *)

\* The extension the claim gives for each content type of the model.
ClaimedExt(ct) ==
    CASE ct = CT_png -> <<".", "p", "n", "g">>
      [] ct = CT_gif -> <<".", "g", "i", "f">>
      [] ct = CT_jpeg -> <<".", "j", "p", "g">>
      [] ct = CT_jpg -> <<".", "j", "p", "g">>
      [] ct = CT_gif_named_png -> <<".", "p", "n", "g">>
      [] OTHER -> <<".", "p", "n", "g">>

\* C10 as claimed: every 200 image response makes download_emoji_image
\* return true with the body written to {name}{ext}.
C10_Every200IsSaved ==
    (lastDl # <<>> /\ lastDl[1].resp.status = 200)
        => /\ lastDl[1].ret
           /\ [name |-> lastDl[1].emoji.name \o ClaimedExt(lastDl[1].resp.ct),
               body |-> lastDl[1].resp.body] \in fs.files

\* C10 amended: for every 200 image response whose file is opened and whose
\* body is streamed into it without error, download_emoji_image returns
\* true and writes the body to exactly one file {name}{ext}, leaving every
\* other file alone, where ext depends on the content type only: .png if
\* it contains 'png', else .gif if it contains 'gif', else .jpg if it
\* contains 'jpeg' or 'jpg', else .png; partyparrot with image/gif gives
\* partyparrot.gif. A 200 response whose file cannot be opened gives false
\* and writes nothing; one whose body stream or write fails gives false
\* and leaves in that one file the bytes written before the failure: a
\* prefix of the body, of any length from none to all of it.
C10_Writable200IsSaved ==
    lastDl # <<>> =>
        LET d == lastDl[1]
            filename == d.emoji.name \o ClaimedExt(d.resp.ct)
            others(files) == { f \in files : f.name # filename }
        IN  /\ (d.resp.status = 200 /\ d.io.kind = "ok")
                => /\ d.ret
                   /\ [name |-> filename, body |-> d.resp.body] \in fs.files
                   /\ \A f \in fs.files : f.name = filename => f.body = d.resp.body
                   /\ others(fs.files) = others(d.before)
            /\ (d.resp.status = 200 /\ d.io.kind = "ok" /\ d.resp.ct = CT_gif
                  /\ d.emoji.name = Name_partyparrot)
                => [name |-> <<"p", "a", "r", "t", "y", "p", "a", "r", "r", "o",
                               "t", ".", "g", "i", "f">>,
                    body |-> d.resp.body] \in fs.files
            /\ (d.resp.status # 200 \/ d.io.kind = "open_fails")
                => (~d.ret /\ fs.files = d.before)
            /\ (d.resp.status = 200 /\ d.io.kind = "stream_fails")
                => /\ ~d.ret
                   /\ d.io.written \in 0..Len(d.resp.body)
                   /\ [name |-> filename,
                       body |-> SubSeq(d.resp.body, 1, d.io.written)] \in fs.files
                   /\ \A f \in fs.files : f.name = filename
                          => f.body = SubSeq(d.resp.body, 1, d.io.written)
                   /\ others(fs.files) = others(d.before)

C10_Witness ==
    /\ lastDl # <<>>
    /\ lastDl[1].resp.status = 200
    /\ lastDl[1].resp.ct = CT_gif
    /\ lastDl[1].io.kind = "ok"
    /\ lastDl[1].emoji.name = Name_partyparrot
    /\ lastDl[1].ret
    /\ \E f \in fs.files : f.name = Name_partyparrot \o <<".", "g", "i", "f">>

====
